---- MODULE Spec2Model ----
(***************************************************************************)
(* Model of app.py, the youth-employment dashboard: the module-level       *)
(* start-up script (boundary load, dataset load, name normalization,       *)
(* aggregates, geo join, figure builders, page layout) and the comparison  *)
(* callback update_tabla_comparativa.                                      *)
(*                                                                         *)
(* Text is a sequence of characters; a character is a one-token string.    *)
(* Characters outside ASCII carry a descriptive token: "a_acute" is        *)
(* U+00E1, "A_ACUTE" is U+00C1, "o_acute" is U+00F3, "O_ACUTE" is U+00D3   *)
(* and "comb_acute" is the combining acute accent U+0301.                  *)
(***************************************************************************)
EXTENDS Integers, Sequences, FiniteSets, TLC

(***************************************************************************)
(* Bounds of the model.                                                    *)
(***************************************************************************)
\* longest free-form text handed to the normalizer
MaxLen == 3
\* most data rows in empleo_juvenil.csv
MaxRows == 2
\* most polygons in the boundary layer
MaxPolys == 2
\* longest selection handed to the comparison callback
MaxSel == 2

\* departments of the datasets that fill the two income bar charts
MaxDeps == 10

(***************************************************************************)
(* Characters.                                                             *)
(***************************************************************************)
LowerLetters ==
  <<"a","b","c","d","e","f","g","h","i","j","k","l","m",
    "n","o","p","q","r","s","t","u","v","w","x","y","z">>

UpperLetters ==
  <<"A","B","C","D","E","F","G","H","I","J","K","L","M",
    "N","O","P","Q","R","S","T","U","V","W","X","Y","Z">>

Range(s) == {s[i] : i \in DOMAIN s}

IndexOf(s, c) == CHOOSE i \in DOMAIN s : s[i] = c

\* the characters str.encode('ascii') can encode
AsciiChars == Range(LowerLetters) \cup Range(UpperLetters) \cup {" ", ",", "."}

\* unicodedata NFKD of one character
DecomposeChar(c) ==
  CASE c = "a_acute" -> <<"a", "comb_acute">>
    [] c = "A_ACUTE" -> <<"A", "comb_acute">>
    [] c = "o_acute" -> <<"o", "comb_acute">>
    [] c = "O_ACUTE" -> <<"O", "comb_acute">>
    [] OTHER -> <<c>>

\* str.lower of one character
LowerChar(c) ==
  CASE c \in Range(UpperLetters) -> LowerLetters[IndexOf(UpperLetters, c)]
    [] c = "A_ACUTE" -> "a_acute"
    [] c = "O_ACUTE" -> "o_acute"
    [] OTHER -> c

\* str.upper of one character
UpperChar(c) ==
  CASE c \in Range(LowerLetters) -> UpperLetters[IndexOf(LowerLetters, c)]
    [] c = "a_acute" -> "A_ACUTE"
    [] c = "o_acute" -> "O_ACUTE"
    [] OTHER -> c

(***************************************************************************)
(* The pandas .str pipeline of lines 41, 58, 59 and 117.                   *)
(***************************************************************************)
RECURSIVE StrNormalizeNFKD(_)
StrNormalizeNFKD(s) ==
  IF s = <<>> THEN <<>>
  ELSE DecomposeChar(Head(s)) \o StrNormalizeNFKD(Tail(s))

IsAscii(c) == c \in AsciiChars

\* .str.encode('ascii', errors='ignore').str.decode('utf-8')
StrEncodeAsciiIgnore(s) == SelectSeq(s, IsAscii)

StrLower(s) == [i \in DOMAIN s |-> LowerChar(s[i])]

StrUpper(s) == [i \in DOMAIN s |-> UpperChar(s[i])]

RECURSIVE StripLeft(_)
StripLeft(s) ==
  IF s # <<>> /\ Head(s) = " " THEN StripLeft(Tail(s)) ELSE s

RECURSIVE StripRight(_)
StripRight(s) ==
  IF s # <<>> /\ s[Len(s)] = " " THEN StripRight(SubSeq(s, 1, Len(s) - 1)) ELSE s

StrStrip(s) == StripRight(StripLeft(s))

\* str.capitalize: first character upper-cased, the rest lower-cased
Capitalize(s) ==
  [i \in DOMAIN s |-> IF i = 1 THEN UpperChar(s[i]) ELSE LowerChar(s[i])]

\* lines 58 and 59: NFKD, drop what ASCII cannot encode, lower-case
NormalizeLower(s) == StrLower(StrEncodeAsciiIgnore(StrNormalizeNFKD(s)))

\* line 117: NFKD, drop what ASCII cannot encode, upper-case
NormalizeUpper(s) == StrUpper(StrEncodeAsciiIgnore(StrNormalizeNFKD(s)))

(***************************************************************************)
(* Texts that occur in the source or in the data.                          *)
(***************************************************************************)
T_santander == <<"s","a","n","t","a","n","d","e","r">>
T_cundinamarca == <<"c","u","n","d","i","n","a","m","a","r","c","a">>
T_bogota_dc == <<"b","o","g","o","t","a"," ","d",".","c",".">>
T_bogota_coma_dc == <<"b","o","g","o","t","a",","," ","d",".","c",".">>
T_valle_del_cauca == <<"v","a","l","l","e"," ","d","e","l"," ","c","a","u","c","a">>
T_valle == <<"v","a","l","l","e">>
T_cordoba == <<"c","o","r","d","o","b","a">>
T_narino == <<"n","a","r","i","n","o">>

T_Santander == <<"S","a","n","t","a","n","d","e","r">>
T_Cundinamarca == <<"C","u","n","d","i","n","a","m","a","r","c","a">>
T_Bogota_DC == <<"B","o","g","o","t","a_acute"," ","D",".","C",".">>
T_Valle_del_Cauca == <<"V","a","l","l","e"," ","d","e","l"," ","C","a","u","c","a">>
T_Cordoba == <<"C","o_acute","r","d","o","b","a">>

T_estudiante == <<"e","s","t","u","d","i","a","n","t","e">>
T_trabajador == <<"t","r","a","b","a","j","a","d","o","r">>
T_desempleado == <<"d","e","s","e","m","p","l","e","a","d","o">>
T_Estudiante == <<"E","s","t","u","d","i","a","n","t","e">>
T_Trabajador == <<"T","r","a","b","a","j","a","d","o","r">>
T_Desempleado == <<"D","e","s","e","m","p","l","e","a","d","o">>
T_Jubilado == <<"J","u","b","i","l","a","d","o">>

\* a mis-built alias table: one value is itself a key with another value
correcciones_encadenadas ==
  (T_bogota_dc :> T_valle_del_cauca) @@
  (T_valle_del_cauca :> T_valle) @@
  (T_cordoba :> T_cordoba)

\* lines 82-86
correcciones ==
  (T_bogota_dc :> T_bogota_coma_dc) @@
  (T_valle_del_cauca :> T_valle) @@
  (T_cordoba :> T_cordoba)

\* line 88, Series.replace(correcciones) on one value: whole-value lookup
Replace(s) == IF s \in DOMAIN correcciones THEN correcciones[s] ELSE s

\* lines 58 and 88 together: the department key of a display name
NormalizeDepartamento(s) == Replace(NormalizeLower(s))

(***************************************************************************)
(* Code-point order of text: groupby (lines 100-109) and sorted (line 534) *)
(* order their keys by it.                                                 *)
(***************************************************************************)
CodePointOrder ==
  <<" ", ",", ".">> \o UpperLetters \o LowerLetters \o
  <<"A_ACUTE", "O_ACUTE", "a_acute", "o_acute", "comb_acute">>

CodePoint(c) == IndexOf(CodePointOrder, c)

RECURSIVE TextLess(_, _)
TextLess(a, b) ==
  IF b = <<>> THEN FALSE
  ELSE IF a = <<>> THEN TRUE
  ELSE IF Head(a) = Head(b) THEN TextLess(Tail(a), Tail(b))
  ELSE CodePoint(Head(a)) < CodePoint(Head(b))

RECURSIVE SortedTexts(_)
SortedTexts(S) ==
  IF S = {} THEN <<>>
  ELSE LET m == CHOOSE x \in S : \A y \in S \ {x} : TextLess(x, y)
       IN <<m>> \o SortedTexts(S \ {m})

(***************************************************************************)
(* Numbers.  A mean is an exact fraction in lowest terms; NaN is what      *)
(* pandas gives for the mean of nothing and for a cell with no value.      *)
(***************************************************************************)
RECURSIVE Gcd(_, _)
Gcd(a, b) == IF b = 0 THEN a ELSE Gcd(b, a % b)

Rat(n, d) == LET g == Gcd(n, d) IN [num |-> n \div g, den |-> d \div g]

Zero == [num |-> 0, den |-> 1]

NaN == [num |-> 0, den |-> 0]

RECURSIVE SumSeq(_)
SumSeq(s) == IF s = <<>> THEN 0 ELSE Head(s) + SumSeq(Tail(s))

\* Series.mean()
Mean(s) == IF s = <<>> THEN NaN ELSE Rat(SumSeq(s), Len(s))

\* a text cell with no value, and the same cell after fillna(0)
NaNText == <<"NaN">>

ZeroText == <<"0">>

(***************************************************************************)
(* Optional values: Python's None, and a name not yet bound.               *)
(***************************************************************************)
None == [isNone |-> TRUE]

Some(v) == [isNone |-> FALSE, v |-> v]

\* a figure: what it shows and the function that built it
Fig(kind, by) == [kind |-> kind, by |-> by]

SeqsUpTo(S, n) == UNION {[1..k -> S] : k \in 0..n}

Column(t, c) == [i \in DOMAIN t |-> t[i][c]]

(***************************************************************************)
(* The files the script reads.  A data row carries the columns the script  *)
(* computes with (Departamento, Edad, Ocupacion for the accented header,   *)
(* Ingreso); ID, Latitud and Longitud are only plotted and are left out.   *)
(***************************************************************************)
Edades == {20}

Ingresos == {100, 300}

CsvRows(deps, ocups) ==
  [Departamento : deps, Edad : Edades, Ocupacion : ocups, Ingreso : Ingresos]

\* empleo_juvenil.csv: unreadable in one of three ways, or a header line
\* followed by zero or more rows
CsvFiles(deps, ocups) ==
  {[fault |-> f, rows |-> <<>>] :
      f \in {"missing_file", "parse_error", "missing_column"}}
  \cup {[fault |-> "none", rows |-> r] : r \in SeqsUpTo(CsvRows(deps, ocups), MaxRows)}

T_SANTANDER_sp == <<"s","a","n","t","a","n","d","e","r"," ">>
T_BOGOTA_COMA_DC == <<"B","O","G","O","T","A_ACUTE",","," ","D",".","C",".">>
T_VALLE_DEL_CAUCA == <<"V","A","L","L","E"," ","D","E","L"," ","C","A","U","C","A">>

ShapeLabels == {T_SANTANDER_sp, T_BOGOTA_COMA_DC, T_VALLE_DEL_CAUCA}

\* MGN_DPTO_POLITICO.shp: the DPTO_CNMBR label of each polygon, and what is
\* wrong with the layer, if anything
ShapeFiles ==
  {[fault |-> f, DPTO_CNMBR |-> <<T_BOGOTA_COMA_DC>>] :
      f \in {"missing_file", "no_label_column", "bad_geometry", "not_serializable"}}
  \cup {[fault |-> "none", DPTO_CNMBR |-> l] : l \in SeqsUpTo(ShapeLabels, MaxPolys)}

NoShapeFile == [fault |-> "missing_file", DPTO_CNMBR |-> <<>>]

(***************************************************************************)
(* State.                                                                  *)
(***************************************************************************)
VARIABLES
  pc,                        \* position of the script; "serving" once the page is up
  GEOPANDAS_AVAILABLE,       \* lines 14-18
  shapefile,                 \* the boundary layer on disk
  csvfile,                   \* the dataset on disk
  px_raises,                 \* the plotting calls that raise in this run
  gdf,                       \* line 34
  geojson,                   \* line 35
  df,                        \* lines 56-75
  ingreso_por_departamento,  \* lines 100-101
  gdf_merged,                \* lines 112-130
  figure,                    \* the figure of each dcc.Graph, by id
  dropdown,                  \* lines 532-538
  departamentos,             \* the selection of the latest callback invocation
  tabla,                     \* what the latest callback invocation returned
  texto,                     \* a text handed to the normalizer
  clave,                     \* the normalizer's successive results
  recordada                  \* history: one earlier callback invocation

vars ==
  <<pc, GEOPANDAS_AVAILABLE, shapefile, csvfile, px_raises, gdf, geojson, df,
    ingreso_por_departamento, gdf_merged, figure, dropdown, departamentos,
    tabla, texto, clave, recordada>>

GraphIds ==
  <<"mapa-principal", "mapa-puntos", "grafico-ocupacion",
    "grafico-ingreso-ocupacion", "grafico-edad-ocupacion",
    "grafico-scatter-edad-ingreso", "grafico-top-ingresos",
    "grafico-bottom-ingresos", "grafico-edad-departamento">>

\* the graphs whose figure is an inline plotly express call, in source order
InlineGraphs == SubSeq(GraphIds, 3, Len(GraphIds))

PxCalls ==
  {"create_mapa_figure", "create_alternative_map", "create_mapa_puntos"}
  \cup Range(InlineGraphs)

\* no call raises, one does, or both map calls do
PxFaultSets ==
  {{}} \cup {{c} : c \in PxCalls}
  \cup {{"create_mapa_figure", "create_alternative_map"}}

InitProgram ==
  /\ pc = "geo_read"
  /\ gdf = None
  /\ geojson = None
  /\ df = None
  /\ ingreso_por_departamento = None
  /\ gdf_merged = None
  /\ figure = [g \in Range(GraphIds) |-> Fig("unbuilt", "nobody")]
  /\ dropdown = None
  /\ departamentos = None
  /\ tabla = None
  /\ texto = <<>>
  /\ clave = <<>>
  /\ recordada = None

(***************************************************************************)
(* Lines 37-52: the boundary load, one action per statement of the try     *)
(* block.  A statement that raises runs the except block at once.          *)
(***************************************************************************)
\* lines 48-52 with the reset of gdf forgotten
GeoExceptSinGdf ==
  /\ gdf' = gdf
  /\ geojson' = None
  /\ pc' = "csv"

\* lines 48-52
GeoExcept ==
  /\ gdf' = None
  /\ geojson' = None
  /\ pc' = "csv"

GeoRest ==
  UNCHANGED <<GEOPANDAS_AVAILABLE, shapefile, csvfile, px_raises, df,
              ingreso_por_departamento, gdf_merged, figure, dropdown,
              departamentos, tabla, texto, clave,
                 recordada>>

\* line 38, condition false
GeoSkip ==
  /\ pc = "geo_read"
  /\ ~GEOPANDAS_AVAILABLE
  /\ pc' = "csv"
  /\ UNCHANGED <<gdf, geojson>>
  /\ GeoRest

\* line 40
GeoRead ==
  /\ pc = "geo_read"
  /\ GEOPANDAS_AVAILABLE
  /\ IF shapefile.fault = "missing_file"
     THEN GeoExcept
     ELSE /\ gdf' = Some([i \in DOMAIN shapefile.DPTO_CNMBR |->
                            IF shapefile.fault = "no_label_column"
                            THEN [geometry |-> i]
                            ELSE [DPTO_CNMBR |-> shapefile.DPTO_CNMBR[i],
                                  geometry |-> i]])
          /\ geojson' = geojson
          /\ pc' = "geo_norm"
  /\ GeoRest

\* line 41
GeoNormalize ==
  /\ pc = "geo_norm"
  /\ IF shapefile.fault = "no_label_column"
     THEN GeoExcept
     ELSE /\ gdf' = Some([i \in DOMAIN gdf.v |->
                            [gdf.v[i] EXCEPT
                               !.DPTO_CNMBR = StrStrip(StrUpper(@))]])
          /\ geojson' = geojson
          /\ pc' = "geo_simplify"
  /\ GeoRest

\* line 44; a geometry is known by the number of its polygon
GeoSimplify ==
  /\ pc = "geo_simplify"
  /\ IF shapefile.fault = "bad_geometry"
     THEN GeoExcept
     ELSE /\ gdf' = gdf
          /\ geojson' = geojson
          /\ pc' = "geo_json"
  /\ GeoRest

\* line 47
GeoToJson ==
  /\ pc = "geo_json"
  /\ IF shapefile.fault = "not_serializable"
     THEN GeoExcept
     ELSE /\ gdf' = gdf
          /\ geojson' = Some(gdf.v)
          /\ pc' = "csv"
  /\ GeoRest

(***************************************************************************)
(* Lines 54-75: the dataset load.                                          *)
(***************************************************************************)
\* lines 65-75
TablaDeEjemplo ==
  << [Departamento |-> T_Santander, departamento |-> T_santander, Edad |-> 20,
      Ocupacion |-> T_Estudiante, ocupacion |-> T_estudiante, Ingreso |-> 868997],
     [Departamento |-> T_Cundinamarca, departamento |-> T_cundinamarca, Edad |-> 24,
      Ocupacion |-> T_Desempleado, ocupacion |-> T_desempleado, Ingreso |-> 586245],
     [Departamento |-> T_Bogota_DC, departamento |-> T_bogota_dc, Edad |-> 25,
      Ocupacion |-> T_Trabajador, ocupacion |-> T_trabajador, Ingreso |-> 415614] >>

\* lines 56-59 on one row of the file
ConDerivadas(r) ==
  [Departamento |-> r.Departamento,
   departamento |-> NormalizeLower(r.Departamento),
   Edad |-> r.Edad,
   Ocupacion |-> r.Ocupacion,
   ocupacion |-> NormalizeLower(r.Ocupacion),
   Ingreso |-> r.Ingreso]

\* lines 55-75
LoadCsv ==
  /\ pc = "csv"
  /\ df' = IF csvfile.fault = "none"
           THEN Some([i \in DOMAIN csvfile.rows |-> ConDerivadas(csvfile.rows[i])])
           ELSE Some(TablaDeEjemplo)
  /\ pc' = "proc"
  /\ UNCHANGED <<GEOPANDAS_AVAILABLE, shapefile, csvfile, px_raises, gdf, geojson,
                 ingreso_por_departamento, gdf_merged, figure, dropdown,
                 departamentos, tabla, texto, clave,
                 recordada>>

(***************************************************************************)
(* Lines 88-109: alias correction and the per-department aggregate.        *)
(***************************************************************************)
DeDepartamento(t, dep) == SelectSeq(t, LAMBDA r : r.departamento = dep)

\* lines 100-101: groupby('departamento')['Ingreso'].mean().reset_index(),
\* one row per distinct key, keys in sorted order
IngresoPorDepartamento(t) ==
  LET claves == SortedTexts(Range(Column(t, "departamento")))
  IN [i \in DOMAIN claves |->
        [departamento |-> claves[i],
         ingreso_promedio |-> Mean(Column(DeDepartamento(t, claves[i]), "Ingreso"))]]

\* lines 88-109
Procesar ==
  /\ pc = "proc"
  /\ LET corregido == [i \in DOMAIN df.v |->
                         [df.v[i] EXCEPT !.departamento = Replace(@)]]
     IN /\ df' = Some(corregido)
        /\ ingreso_por_departamento' = Some(IngresoPorDepartamento(corregido))
  /\ pc' = "join"
  /\ UNCHANGED <<GEOPANDAS_AVAILABLE, shapefile, csvfile, px_raises, gdf, geojson,
                 gdf_merged, figure, dropdown, departamentos, tabla, texto, clave,
                 recordada>>

(***************************************************************************)
(* Lines 111-130: the geo join.                                            *)
(***************************************************************************)
\* line 116
ConDepartamentoUpper(agg) ==
  [i \in DOMAIN agg |->
     [departamento |-> agg[i].departamento,
      ingreso_promedio |-> agg[i].ingreso_promedio,
      departamento_upper |-> StrUpper(agg[i].departamento)]]

\* line 117
ConDptoNorm(g) ==
  [i \in DOMAIN g |->
     [DPTO_CNMBR |-> g[i].DPTO_CNMBR,
      geometry |-> g[i].geometry,
      DPTO_CNMBR_NORM |-> NormalizeUpper(g[i].DPTO_CNMBR)]]

\* one row of the merge: the polygon's columns, then the aggregate's
Unidas(l, r) ==
  [DPTO_CNMBR |-> l.DPTO_CNMBR,
   geometry |-> l.geometry,
   DPTO_CNMBR_NORM |-> l.DPTO_CNMBR_NORM,
   departamento |-> r.departamento,
   ingreso_promedio |-> r.ingreso_promedio,
   departamento_upper |-> r.departamento_upper]

\* the aggregate's columns of a polygon that matched nothing
SinPareja ==
  [departamento |-> NaNText, ingreso_promedio |-> NaN, departamento_upper |-> NaNText]

Parejas(l, right) ==
  SelectSeq(right, LAMBDA r : r.departamento_upper = l.DPTO_CNMBR_NORM)

\* how='inner' in place of how='left'
RECURSIVE MergeInner(_, _)
MergeInner(left, right) ==
  IF left = <<>> THEN <<>>
  ELSE LET m == Parejas(Head(left), right)
       IN [j \in DOMAIN m |-> Unidas(Head(left), m[j])]
          \o MergeInner(Tail(left), right)

\* lines 120-125 before fillna: DataFrame.merge(how='left'), one output row
\* per matching pair and one for each polygon without a match, in the order
\* of the polygons
RECURSIVE Merge(_, _)
Merge(left, right) ==
  IF left = <<>> THEN <<>>
  ELSE LET m == Parejas(Head(left), right)
       IN (IF m = <<>> THEN <<Unidas(Head(left), SinPareja)>>
           ELSE [j \in DOMAIN m |-> Unidas(Head(left), m[j])])
          \o Merge(Tail(left), right)

\* the fillna forgotten
FillnaOlvidado(t) == t

\* line 125: .fillna(0)
Fillna(t) ==
  [i \in DOMAIN t |->
     [t[i] EXCEPT
        !.departamento = IF @ = NaNText THEN ZeroText ELSE @,
        !.departamento_upper = IF @ = NaNText THEN ZeroText ELSE @,
        !.ingreso_promedio = IF @ = NaN THEN Zero ELSE @]]

\* lines 112-130; fallo is the statement of the try block that raises
Join ==
  /\ pc = "join"
  /\ \E fallo \in {"none", "upper", "norm", "merge"} :
       IF gdf.isNone
       THEN /\ gdf_merged' = None
            /\ UNCHANGED <<gdf, ingreso_por_departamento>>
       ELSE LET agg == ConDepartamentoUpper(ingreso_por_departamento.v)
                g == ConDptoNorm(gdf.v)
            IN /\ ingreso_por_departamento' =
                    IF fallo = "upper" THEN ingreso_por_departamento ELSE Some(agg)
               /\ gdf' = IF fallo \in {"upper", "norm"} THEN gdf ELSE Some(g)
               /\ gdf_merged' =
                    IF fallo = "none" THEN Some(Fillna(Merge(g, agg))) ELSE None
  /\ pc' = "mapa"
  /\ UNCHANGED <<GEOPANDAS_AVAILABLE, shapefile, csvfile, px_raises, geojson, df, figure,
                 dropdown, departamentos, tabla, texto, clave,
                 recordada>>

(***************************************************************************)
(* Lines 210-524: the figures.  Whether a plotting call raises depends on  *)
(* the plotting library and the data; px_raises names the calls that do.   *)
(***************************************************************************)
\* lines 244-283
create_alternative_map ==
  IF "create_alternative_map" \in px_raises
  THEN Fig("placeholder", "create_alternative_map")
  ELSE Fig("scatter_mapbox", "create_alternative_map")

\* lines 211-242
create_mapa_figure ==
  IF ~gdf_merged.isNone /\ ~geojson.isNone
  THEN IF "create_mapa_figure" \in px_raises
       THEN create_alternative_map
       ELSE Fig("choropleth", "create_mapa_figure")
  ELSE create_alternative_map

\* lines 286-317
create_mapa_puntos ==
  IF "create_mapa_puntos" \in px_raises
  THEN Fig("placeholder", "create_mapa_puntos")
  ELSE Fig("scatter_mapbox", "create_mapa_puntos")

FigRest ==
  UNCHANGED <<GEOPANDAS_AVAILABLE, shapefile, csvfile, px_raises, gdf, geojson,
              df, ingreso_por_departamento, gdf_merged, dropdown, departamentos,
              tabla, texto, clave,
                 recordada>>

\* line 328
BuildMapaPrincipal ==
  /\ pc = "mapa"
  /\ figure' = [figure EXCEPT !["mapa-principal"] = create_mapa_figure]
  /\ pc' = "puntos"
  /\ FigRest

\* line 340
BuildMapaPuntos ==
  /\ pc = "puntos"
  /\ figure' = [figure EXCEPT !["mapa-puntos"] = create_mapa_puntos]
  /\ pc' = "charts"
  /\ FigRest

\* the order of two means
RatLess(a, b) == a.num * b.den < b.num * a.den

\* head(5), lines 467 and 485
HeadRows == 5

\* sort_values('ingreso_promedio', ascending=...).head(5), as the set of the
\* departments of the rows kept.  The default sort kind is quicksort, which
\* is not stable: rows with equal means come in an order the build decides,
\* so every set that some sorted order puts first is an outcome.  A row is
\* surely kept when fewer than 5 other rows can come before it or tie with
\* it, and can be kept when fewer than 5 rows come strictly before it.
Heads(agg, ascending) ==
  LET idx == DOMAIN agg
      Before(i, j) ==
        IF ascending
        THEN RatLess(agg[i].ingreso_promedio, agg[j].ingreso_promedio)
        ELSE RatLess(agg[j].ingreso_promedio, agg[i].ingreso_promedio)
      k == IF Len(agg) < HeadRows THEN Len(agg) ELSE HeadRows
      sure == {i \in idx :
                 Cardinality({j \in idx \ {i} : ~Before(i, j)}) < k}
      possible == {i \in idx : Cardinality({j \in idx : Before(j, i)}) < k}
  IN {{agg[i].departamento : i \in sure \cup T} :
        T \in {U \in SUBSET (possible \ sure) :
                 Cardinality(sure) + Cardinality(U) = k}}

\* line 467
TopIngresos(agg) == Heads(agg, FALSE)

\* the lowest incomes taken from the descending order
BottomIngresosDescendente(agg) == Heads(agg, FALSE)

\* line 485
BottomIngresos(agg) == Heads(agg, TRUE)

\* a bar chart and the departments on its y axis
FigBar(deps) ==
  [kind |-> "bar", by |-> "plotly.express", departamento |-> deps]

\* lines 358, 374, 401, 428, 466, 484, 510: the inline plotly express calls,
\* none inside a try block.  An exception leaves the script before any layout
\* object is bound, so a run that raises keeps no figure of this step.
BuildInlineCharts ==
  /\ pc = "charts"
  /\ IF px_raises \cap Range(InlineGraphs) = {}
     THEN /\ \E top \in TopIngresos(ingreso_por_departamento.v),
                bottom \in BottomIngresos(ingreso_por_departamento.v) :
               figure' = [g \in DOMAIN figure |->
                            IF g = "grafico-top-ingresos" THEN FigBar(top)
                            ELSE IF g = "grafico-bottom-ingresos"
                            THEN FigBar(bottom)
                            ELSE IF g \in Range(InlineGraphs)
                            THEN Fig("chart", "plotly.express")
                            ELSE figure[g]]
          /\ pc' = "dropdown"
     ELSE /\ figure' = figure
          /\ pc' = "crashed"
  /\ FigRest

\* lines 532-538
BuildDropdown ==
  /\ pc = "dropdown"
  /\ dropdown' =
       Some([options |-> SortedTexts(Range(Column(df.v, "departamento"))),
             value |-> IF Len(df.v) > 1
                       THEN <<df.v[1].departamento, df.v[2].departamento>>
                       ELSE <<>>])
  /\ pc' = "layout"
  /\ UNCHANGED <<GEOPANDAS_AVAILABLE, shapefile, csvfile, px_raises, gdf, geojson, df,
                 ingreso_por_departamento, gdf_merged, figure, departamentos,
                 tabla, texto, clave,
                 recordada>>

\* lines 547-603
ComposeLayout ==
  /\ pc = "layout"
  /\ pc' = "serving"
  /\ UNCHANGED <<GEOPANDAS_AVAILABLE, shapefile, csvfile, px_raises, gdf, geojson, df,
                 ingreso_por_departamento, gdf_merged, figure, dropdown,
                 departamentos, tabla, texto, clave,
                 recordada>>

(***************************************************************************)
(* Lines 609-673: the comparison callback.                                 *)
(***************************************************************************)
DeOcupacion(t, ocup) == SelectSeq(t, LAMBDA r : r.ocupacion = ocup)

\* lines 635-637: len(x) / len(dep_data) * 100 if len(dep_data) > 0 else 0
Porcentaje(parte, dep_data) ==
  IF Len(dep_data) > 0 THEN Rat(Len(parte) * 100, Len(dep_data)) ELSE Zero

\* the mean taken without asking whether the subset is empty
IngresoDeSinGuarda(parte) == Mean(Column(parte, "Ingreso"))

\* lines 638-640: x['Ingreso'].mean() if not x.empty else 0
IngresoDe(parte) ==
  IF parte # <<>> THEN Mean(Column(parte, "Ingreso")) ELSE Zero

\* lines 626-641
Fila(dep, dep_data) ==
  LET estudiantes == DeOcupacion(dep_data, T_estudiante)
      trabajadores == DeOcupacion(dep_data, T_trabajador)
      desempleados == DeOcupacion(dep_data, T_desempleado)
  IN ("Departamento" :> Capitalize(dep)) @@
     ("Edad Promedio" :> Mean(Column(dep_data, "Edad"))) @@
     ("Ingreso Promedio" :> Mean(Column(dep_data, "Ingreso"))) @@
     ("Total Jovenes" :> Len(dep_data)) @@
     ("% Estudiantes" :> Porcentaje(estudiantes, dep_data)) @@
     ("% Trabajadores" :> Porcentaje(trabajadores, dep_data)) @@
     ("% Desempleados" :> Porcentaje(desempleados, dep_data)) @@
     ("Ingreso Estudiantes" :> IngresoDe(estudiantes)) @@
     ("Ingreso Trabajadores" :> IngresoDe(trabajadores)) @@
     ("Ingreso Desempleados" :> IngresoDe(desempleados))

\* the loop putting each new row in front of the earlier ones
RECURSIVE ResultadosAlReves(_, _)
ResultadosAlReves(sel, t) ==
  IF sel = <<>> THEN <<>>
  ELSE LET dep == Head(sel)
           dep_data == DeDepartamento(t, dep)
       IN ResultadosAlReves(Tail(sel), t)
          \o (IF dep_data # <<>> THEN <<Fila(dep, dep_data)>> ELSE <<>>)

\* lines 619-641: the loop over the selection
RECURSIVE Resultados(_, _)
Resultados(sel, t) ==
  IF sel = <<>> THEN <<>>
  ELSE LET dep == Head(sel)
           dep_data == DeDepartamento(t, dep)
       IN (IF dep_data # <<>> THEN <<Fila(dep, dep_data)>> ELSE <<>>)
          \o Resultados(Tail(sel), t)

\* the callback with resultados kept from one invocation to the next
update_tabla_acumulando(sel) ==
  IF sel.isNone
  THEN [kind |-> "prompt"]
  ELSE IF sel.v = <<>> \/ Len(df.v) = 0
       THEN [kind |-> "prompt"]
       ELSE [kind |-> "table",
             data |-> (IF tabla.isNone THEN <<>>
                       ELSE IF tabla.v.kind = "table" THEN tabla.v.data
                       ELSE <<>>)
                      \o Resultados(sel.v, df.v)]

\* lines 614-673; sel is None or a list
update_tabla_comparativa(sel) ==
  IF sel.isNone
  THEN [kind |-> "prompt"]
  ELSE IF sel.v = <<>> \/ Len(df.v) = 0
       THEN [kind |-> "prompt"]
       ELSE [kind |-> "table", data |-> Resultados(sel.v, df.v)]

\* what the callback can be handed: department keys, each of which the
\* dataset may or may not carry
SelValues == {T_santander, T_bogota_coma_dc}

Selections == {None} \cup {Some(s) : s \in SeqsUpTo(SelValues, MaxSel)}

\* two selections are the same value
MismaSeleccion(a, b) ==
  /\ a.isNone = b.isNone
  /\ a.isNone \/ a.v = b.v

\* lines 610-614: the selection changes and the framework calls the callback.
\* The history variable notes whether a selection other than the remembered
\* one has been answered since.
Seleccionar ==
  /\ pc = "serving"
  /\ \E sel \in Selections :
       /\ departamentos' = sel
       /\ tabla' = Some(update_tabla_comparativa(sel))
       /\ recordada' =
            IF recordada.isNone THEN recordada
            ELSE Some([recordada.v EXCEPT
                         !.otra = @ \/ ~MismaSeleccion(sel, recordada.v.sel)])
  /\ UNCHANGED <<pc, GEOPANDAS_AVAILABLE, shapefile, csvfile, px_raises, gdf, geojson, df,
                 ingreso_por_departamento, gdf_merged, figure, dropdown,
                 texto, clave>>

\* lines 610-614: the same invocation, remembered by the history variable
SeleccionarRecordada ==
  /\ pc = "serving"
  /\ recordada.isNone
  /\ \E sel \in Selections :
       /\ departamentos' = sel
       /\ tabla' = Some(update_tabla_comparativa(sel))
       /\ recordada' = Some([sel |-> sel,
                             out |-> update_tabla_comparativa(sel),
                             otra |-> FALSE])
  /\ UNCHANGED <<pc, GEOPANDAS_AVAILABLE, shapefile, csvfile, px_raises, gdf, geojson, df,
                 ingreso_por_departamento, gdf_merged, figure, dropdown,
                 texto, clave>>

(***************************************************************************)
(* The normalizer on its own: lines 58 and 88 applied to a text, and then  *)
(* to their own result.                                                    *)
(***************************************************************************)
NormAlphabet == {"A", "a", "a_acute", "O_ACUTE", "comb_acute", " "}

NormInputs ==
  SeqsUpTo(NormAlphabet, MaxLen)
  \cup {T_Santander, T_Cundinamarca, T_Bogota_DC, T_Valle_del_Cauca, T_Cordoba,
        T_santander, T_cundinamarca, T_narino}
  \cup ShapeLabels
  \cup DOMAIN correcciones
  \cup Range(correcciones)

Normalizar ==
  /\ pc = "norm"
  /\ Len(clave) < 2
  /\ clave' = Append(clave, NormalizeDepartamento(
                               IF clave = <<>> THEN texto ELSE clave[Len(clave)]))
  /\ UNCHANGED <<pc, GEOPANDAS_AVAILABLE, shapefile, csvfile, px_raises, gdf, geojson, df,
                 ingreso_por_departamento, gdf_merged, figure, dropdown,
                 departamentos, tabla, texto, recordada>>

(***************************************************************************)
(* Specifications.                                                         *)
(***************************************************************************)
CsvDepartamentos == {T_Santander, T_Bogota_DC, T_Valle_del_Cauca}

CsvOcupaciones == {T_Estudiante, T_Trabajador, T_Desempleado, T_Jubilado}

\* the whole program
Init ==
  /\ InitProgram
  /\ GEOPANDAS_AVAILABLE \in BOOLEAN
  /\ shapefile \in (IF GEOPANDAS_AVAILABLE THEN ShapeFiles ELSE {NoShapeFile})
  /\ csvfile \in CsvFiles(CsvDepartamentos, CsvOcupaciones)
  /\ px_raises \in PxFaultSets

Next ==
  \/ GeoSkip
  \/ GeoRead
  \/ GeoNormalize
  \/ GeoSimplify
  \/ GeoToJson
  \/ LoadCsv
  \/ Procesar
  \/ Join
  \/ BuildMapaPrincipal
  \/ BuildMapaPuntos
  \/ BuildInlineCharts
  \/ BuildDropdown
  \/ ComposeLayout
  \/ Seleccionar

Spec == Init /\ [][Next]_vars

\* the start-up script, with or without the geospatial library; the dataset
\* varies in department and income
InitStartup ==
  /\ InitProgram
  /\ GEOPANDAS_AVAILABLE \in BOOLEAN
  /\ shapefile \in (IF GEOPANDAS_AVAILABLE THEN ShapeFiles ELSE {NoShapeFile})
  /\ csvfile \in CsvFiles({T_Bogota_DC, T_Valle_del_Cauca}, {T_Estudiante})
  /\ px_raises \in PxFaultSets

NextStartup ==
  \/ GeoSkip
  \/ GeoRead
  \/ GeoNormalize
  \/ GeoSimplify
  \/ GeoToJson
  \/ LoadCsv
  \/ Procesar
  \/ Join
  \/ BuildMapaPrincipal
  \/ BuildMapaPuntos
  \/ BuildInlineCharts
  \/ BuildDropdown
  \/ ComposeLayout

SpecStartup == InitStartup /\ [][NextStartup]_vars

\* the program without the geospatial library, start-up and callback; the
\* dataset varies in department, occupation and income, and the plotting
\* calls all succeed or the scatter chart raises
InitServe ==
  /\ InitProgram
  /\ GEOPANDAS_AVAILABLE = FALSE
  /\ shapefile = NoShapeFile
  /\ csvfile \in CsvFiles({T_Santander, T_Bogota_DC},
                          {T_Estudiante, T_Desempleado, T_Jubilado})
  /\ px_raises \in {{}, {"grafico-scatter-edad-ingreso"}}

NextServe ==
  \/ GeoSkip
  \/ LoadCsv
  \/ Procesar
  \/ Join
  \/ BuildMapaPrincipal
  \/ BuildMapaPuntos
  \/ BuildInlineCharts
  \/ BuildDropdown
  \/ ComposeLayout
  \/ Seleccionar

SpecServe == InitServe /\ [][NextServe]_vars

\* the normalizer alone
InitNorm ==
  /\ pc = "norm"
  /\ texto \in NormInputs
  /\ clave = <<>>
  /\ GEOPANDAS_AVAILABLE = FALSE
  /\ shapefile = NoShapeFile
  /\ csvfile = [fault |-> "missing_file", rows |-> <<>>]
  /\ px_raises = {}
  /\ gdf = None
  /\ geojson = None
  /\ df = None
  /\ ingreso_por_departamento = None
  /\ gdf_merged = None
  /\ figure = [g \in Range(GraphIds) |-> Fig("unbuilt", "nobody")]
  /\ dropdown = None
  /\ departamentos = None
  /\ tabla = None
  /\ recordada = None

NextNorm == Normalizar

SpecNorm == InitNorm /\ [][NextNorm]_vars

\* the program without the geospatial library, up to the inline charts, on
\* datasets of one record per department: the first records earn 100 and
\* the others 300, so that means tie below and above the two cuts of 5
BarCsvFiles ==
  UNION {{[fault |-> "none",
           rows |-> [i \in 1..n |->
                       [Departamento |-> <<UpperLetters[i]>>,
                        Edad |-> 20,
                        Ocupacion |-> T_Estudiante,
                        Ingreso |-> IF i <= k THEN 100 ELSE 300]]] :
            k \in 0..n} : n \in 0..MaxDeps}

InitBars ==
  /\ InitProgram
  /\ GEOPANDAS_AVAILABLE = FALSE
  /\ shapefile = NoShapeFile
  /\ csvfile \in BarCsvFiles
  /\ px_raises = {}

NextBars ==
  \/ GeoSkip
  \/ LoadCsv
  \/ Procesar
  \/ Join
  \/ BuildMapaPrincipal
  \/ BuildMapaPuntos
  \/ BuildInlineCharts

SpecBars == InitBars /\ [][NextBars]_vars

\* the program without the geospatial library, start-up and callback, with
\* one callback invocation remembered; the dataset varies in department and
\* income, and no plotting call raises
InitHistoria ==
  /\ InitProgram
  /\ GEOPANDAS_AVAILABLE = FALSE
  /\ shapefile = NoShapeFile
  /\ csvfile \in CsvFiles({T_Santander, T_Bogota_DC}, {T_Estudiante})
  /\ px_raises = {}

NextHistoria ==
  \/ GeoSkip
  \/ LoadCsv
  \/ Procesar
  \/ Join
  \/ BuildMapaPrincipal
  \/ BuildMapaPuntos
  \/ BuildInlineCharts
  \/ BuildDropdown
  \/ ComposeLayout
  \/ Seleccionar
  \/ SeleccionarRecordada

SpecHistoria == InitHistoria /\ [][NextHistoria]_vars

(***************************************************************************)
(* Properties.                                                             *)
(***************************************************************************)
SeleccionVacia(sel) == IF sel.isNone THEN TRUE ELSE sel.v = <<>>

Respondido == pc = "serving" /\ ~tabla.isNone

RECURSIVE IsSubsequence(_, _)
IsSubsequence(a, b) ==
  IF a = <<>> THEN TRUE
  ELSE IF b = <<>> THEN FALSE
  ELSE IF Head(a) = Head(b) THEN IsSubsequence(Tail(a), Tail(b))
  ELSE IsSubsequence(a, Tail(b))

\* the selected entries that have at least one record, in selection order
Aciertos(sel, t) ==
  SelectSeq(sel, LAMBDA d : \E k \in DOMAIN t : t[k].departamento = d)

Ocupaciones == <<T_estudiante, T_trabajador, T_desempleado>>

ColPorcentaje == <<"% Estudiantes", "% Trabajadores", "% Desempleados">>

ColIngreso == <<"Ingreso Estudiantes", "Ingreso Trabajadores", "Ingreso Desempleados">>

\* C1: the callback's outcome is decided by the selection alone: an empty
\* selection (None or an empty list) gives the prompt, every non-empty
\* selection gives a table, in every start-up state of the record table.
C1_SelectionAloneDecides ==
  Respondido =>
    IF SeleccionVacia(departamentos)
    THEN tabla.v.kind = "prompt"
    ELSE tabla.v.kind = "table"

\* C2: the rows of the table are in the same relative order as their
\* departments in the selection: the row labels, read top to bottom, are found
\* in that order among the capitalized entries of the selection.
C2_RowsFollowSelectionOrder ==
  (Respondido /\ tabla.v.kind = "table") =>
    IsSubsequence(Column(tabla.v.data, "Departamento"),
                  [i \in DOMAIN departamentos.v |-> Capitalize(departamentos.v[i])])

\* C2 witness: a table of two rows for two different departments
C2_Witness ==
  /\ Respondido
  /\ tabla.v.kind = "table"
  /\ Len(tabla.v.data) = 2
  /\ tabla.v.data[1]["Departamento"] # tabla.v.data[2]["Departamento"]

\* C3: when some selected department has records the callback returns a table
\* (it does not raise), with one row for each such entry, and in that row every
\* one of the three occupations without a record in the department has share 0
\* and mean income 0.
C3_AbsentOccupationIsZero ==
  (Respondido /\ ~SeleccionVacia(departamentos)) =>
    LET hits == Aciertos(departamentos.v, df.v)
    IN hits # <<>> =>
         /\ tabla.v.kind = "table"
         /\ Len(tabla.v.data) = Len(hits)
         /\ \A i \in DOMAIN hits : \A o \in DOMAIN Ocupaciones :
              (~\E k \in DOMAIN df.v :
                   /\ df.v[k].departamento = hits[i]
                   /\ df.v[k].ocupacion = Ocupaciones[o])
              => /\ tabla.v.data[i][ColPorcentaje[o]] = Zero
                 /\ tabla.v.data[i][ColIngreso[o]] = Zero

\* C3 witness: a row of a department that has students and no unemployed
C3_Witness ==
  /\ Respondido
  /\ tabla.v.kind = "table"
  /\ \E i \in DOMAIN tabla.v.data :
       /\ tabla.v.data[i]["% Estudiantes"] # Zero
       /\ tabla.v.data[i]["Ingreso Estudiantes"] # Zero
       /\ tabla.v.data[i]["% Desempleados"] = Zero
       /\ tabla.v.data[i]["Ingreso Desempleados"] = Zero

\* C4: a joined table has exactly the polygons of the boundary table, each
\* once and in the same order: none dropped, none duplicated.
C4_JoinKeepsEveryPolygon ==
  ~gdf_merged.isNone =>
    /\ Len(gdf_merged.v) = Len(gdf.v)
    /\ Len(gdf_merged.v) = Len(shapefile.DPTO_CNMBR)
    /\ Column(gdf_merged.v, "geometry") = Column(gdf.v, "geometry")

\* C4 witness: a join of two polygons, one with an aggregate and one without
C4_Witness ==
  /\ ~gdf_merged.isNone
  /\ Len(gdf_merged.v) = 2
  /\ gdf_merged.v[1].departamento # ZeroText
  /\ gdf_merged.v[2].departamento = ZeroText

\* the aggregate rows whose upper-cased key is the polygon's accent-stripped
\* upper-cased label
AggDe(label) ==
  SelectSeq(ingreso_por_departamento.v,
            LAMBDA a : StrUpper(a.departamento) = NormalizeUpper(label))

BienFormada(r) ==
  DOMAIN r = {"Departamento", "departamento", "Edad", "Ocupacion", "ocupacion",
              "Ingreso"}

\* C6: after the loader step, in every outcome of the read, df is well-formed
\* and non-empty, and when the read fails df is the built-in 3-row table.
C6_LoaderNeverEmpty ==
  pc = "proc" =>
    /\ Len(df.v) > 0
    /\ \A i \in DOMAIN df.v : BienFormada(df.v[i])
    /\ csvfile.fault # "none" => df.v = TablaDeEjemplo

GeoPcs == {"geo_read", "geo_norm", "geo_simplify", "geo_json"}

\* C7: once the boundary load is over gdf and geojson are both set or both
\* None; when the library is missing or a step of the load failed both are
\* None, gdf_merged is None once the join is past, and the main map is the
\* figure returned by create_alternative_map.
C7_GeoFailureFallsBack ==
  /\ pc \notin GeoPcs => (gdf.isNone <=> geojson.isNone)
  /\ (~GEOPANDAS_AVAILABLE \/ shapefile.fault # "none") =>
       /\ pc \notin GeoPcs => (gdf.isNone /\ geojson.isNone)
       /\ gdf_merged.isNone
       /\ pc \notin (GeoPcs \cup {"csv", "proc", "join", "mapa"}) =>
            figure["mapa-principal"].by = "create_alternative_map"

\* C7 witness: the layer read and normalized, its serialization failed, and
\* the page is up with the alternative map
C7_Witness ==
  /\ GEOPANDAS_AVAILABLE
  /\ shapefile.fault = "not_serializable"
  /\ pc = "serving"
  /\ figure["mapa-principal"].by = "create_alternative_map"

\* C8: no figure builder lets a construction failure reach its caller, so the
\* script never stops while it builds the page.
C8_NoBuilderPropagates == pc # "crashed"

\* C9: after loading, the ocupacion of every record is one of estudiante,
\* trabajador, desempleado, whatever occupation text the file holds.
C9_OcupacionInDomain ==
  ~df.isNone =>
    \A i \in DOMAIN df.v : df.v[i].ocupacion \in Range(Ocupaciones)

\* C10: department-name normalization is idempotent, and no value of the alias
\* table is a key with a different value.
C10_NormalizeIdempotent ==
  /\ Len(clave) = 2 => clave[2] = clave[1]
  /\ \A k \in DOMAIN correcciones :
       correcciones[k] \in DOMAIN correcciones =>
         correcciones[correcciones[k]] = correcciones[k]

\* C10 witness: an accented display name whose key the alias table rewrote,
\* normalized a second time
C10_Witness ==
  /\ texto = T_Bogota_DC
  /\ Len(clave) = 2
  /\ clave[1] = T_bogota_coma_dc

\* the two income bar charts are built
BarsBuilt ==
  /\ figure["grafico-top-ingresos"].kind = "bar"
  /\ figure["grafico-bottom-ingresos"].kind = "bar"

\* the departments both bar charts show
EnAmbas ==
  figure["grafico-top-ingresos"].departamento
    \cap figure["grafico-bottom-ingresos"].departamento

\* the number of distinct departments of the income aggregate
NDepartamentos == Len(ingreso_por_departamento.v)

\* C11: the departments of the top-5 chart and those of the bottom-5 chart
\* are disjoint only if the aggregate has at least 10 departments; with
\* fewer than 10 the two charts share at least one department.
C11_DisjointOnlyWithTen ==
  BarsBuilt =>
    /\ (EnAmbas = {}) => NDepartamentos >= 10
    /\ NDepartamentos < 10 => EnAmbas # {}

\* two callback answers are the same value
MismaRespuesta(a, b) ==
  /\ a.kind = b.kind
  /\ a.kind = "table" => a.data = b.data

\* C12: once the page is served, no callback invocation changes df, the
\* income aggregate or anything else start-up built, and the answer to a
\* selection equals the answer an earlier invocation gave to the same
\* selection, whatever was selected in between.
C12_CallbacksLeaveDataAlone ==
  [][pc = "serving" =>
       /\ df' = df
       /\ ingreso_por_departamento' = ingreso_por_departamento
       /\ gdf' = gdf
       /\ geojson' = geojson
       /\ gdf_merged' = gdf_merged
       /\ figure' = figure
       /\ dropdown' = dropdown
       /\ (IF recordada'.isNone THEN FALSE
           ELSE MismaSeleccion(departamentos', recordada'.v.sel))
          => MismaRespuesta(tabla'.v, recordada'.v.out)]_vars

\* a remembered selection is answered again with a table of at least one
\* row, after another selection was answered in between
C12_Witness ==
  /\ pc = "serving"
  /\ ~recordada.isNone
  /\ recordada.v.otra
  /\ MismaSeleccion(departamentos, recordada.v.sel)
  /\ tabla.v.kind = "table"
  /\ Len(tabla.v.data) >= 1

\* the sum of three fractions is 100
SumaCien(a, b, c) ==
  a.num * b.den * c.den + b.num * a.den * c.den + c.num * a.den * b.den
    = 100 * a.den * b.den * c.den

\* C13: in every row of the table the three shares add up to 100, and
\* 'Total Jovenes' is the number of the department's records whose occupation
\* is estudiante, trabajador or desempleado.
C13_SharesSumTo100 ==
  (Respondido /\ tabla.v.kind = "table") =>
    LET hits == Aciertos(departamentos.v, df.v)
    IN \A i \in DOMAIN tabla.v.data :
         /\ SumaCien(tabla.v.data[i]["% Estudiantes"],
                     tabla.v.data[i]["% Trabajadores"],
                     tabla.v.data[i]["% Desempleados"])
         /\ tabla.v.data[i]["Total Jovenes"] =
              Cardinality({k \in DOMAIN df.v :
                             /\ df.v[k].departamento = hits[i]
                             /\ df.v[k].ocupacion \in Range(Ocupaciones)})

\* C14: a non-empty selection is answered with a table holding exactly one
\* row for each selected entry that has a record in df, a repeated entry
\* giving a repeated row, and no row for an entry without a record; the table
\* has at most as many rows as the selection has entries, and has zero rows
\* when no selected entry has a record.
C14_OneRowPerMatchingEntry ==
  (Respondido /\ ~SeleccionVacia(departamentos)) =>
    LET hits == Aciertos(departamentos.v, df.v)
    IN /\ tabla.v.kind = "table"
       /\ Column(tabla.v.data, "Departamento")
            = [i \in DOMAIN hits |-> Capitalize(hits[i])]
       /\ Len(tabla.v.data) <= Len(departamentos.v)
       /\ hits = <<>> => tabla.v.data = <<>>

\* the means of the income aggregate
Medias == Range(Column(ingreso_por_departamento.v, "ingreso_promedio"))

\* the mean of the 5th row when the rows are put in ascending order
QuintaMenor ==
  CHOOSE v \in Medias :
    LET rows == DOMAIN ingreso_por_departamento.v
        media(i) == ingreso_por_departamento.v[i].ingreso_promedio
    IN /\ Cardinality({i \in rows : RatLess(media(i), v)}) < HeadRows
       /\ Cardinality({i \in rows : ~RatLess(v, media(i))}) >= HeadRows

\* the mean of the 5th row when the rows are put in descending order
QuintaMayor ==
  CHOOSE v \in Medias :
    LET rows == DOMAIN ingreso_por_departamento.v
        media(i) == ingreso_por_departamento.v[i].ingreso_promedio
    IN /\ Cardinality({i \in rows : RatLess(v, media(i))}) < HeadRows
       /\ Cardinality({i \in rows : ~RatLess(media(i), v)}) >= HeadRows

\* C15 as stated: whenever the income aggregate has at least 10 departments
\* the top-5 chart and the bottom-5 chart have no department in common,
\* also when several departments have equal mean income.
C15_DisjointWithTen ==
  (BarsBuilt /\ NDepartamentos >= 10) => EnAmbas = {}

\* C15 amended: whenever the income aggregate has at least 10 departments
\* and the 5th lowest mean is below the 5th highest mean, the top-5 chart
\* and the bottom-5 chart have no department in common, also when several
\* departments have equal mean income.
C15_DisjointWhenCutsApart ==
  (BarsBuilt /\ NDepartamentos >= 10) =>
    (RatLess(QuintaMenor, QuintaMayor) => EnAmbas = {})

\* C15 witness: ten or more departments, some with equal means, the 5th
\* lowest mean below the 5th highest, and two charts without a common
\* department
C15_Witness ==
  /\ BarsBuilt
  /\ NDepartamentos >= 10
  /\ Cardinality(Medias) < NDepartamentos
  /\ RatLess(QuintaMenor, QuintaMayor)
  /\ figure["grafico-top-ingresos"].departamento # {}
  /\ EnAmbas = {}

============================================================================
